---------------------------- MODULE Spec2Model ----------------------------
(***************************************************************************)
(* Model of the research application: the provider adapter                 *)
(* (performResearch, performOpenAIResearch, performGeminiResearch) and the *)
(* state logic of the presentation shell (App: handleSubmit,               *)
(* toggleExpanded and the setConfig handlers).                             *)
(*                                                                         *)
(* JavaScript values are modelled as tagged records [t, v]:                *)
(*   "str"  v = the string            "num"  v = the number's lexeme       *)
(*   "bool" v = "true" / "false"      "null" v = "null"                    *)
(*   "arr"  v = sequence of values    "obj"  v = function key -> value     *)
(* An optional JavaScript property (possibly undefined) is a sequence of   *)
(* length 0 or 1.  Fractions are counted in hundredths (70 is 0.7).         *)
(***************************************************************************)
EXTENDS Integers, Sequences, FiniteSets, TLC

(***************************************************************************)
(* JavaScript values                                                       *)
(***************************************************************************)
Str(s) == [t |-> "str",  v |-> s]
Num(s) == [t |-> "num",  v |-> s]
Bool(s) == [t |-> "bool", v |-> s]
Null == [t |-> "null", v |-> "null"]
Arr(q) == [t |-> "arr",  v |-> q]
Obj(f) == [t |-> "obj",  v |-> f]

(***************************************************************************)
(* JSON.parse, character by character over the text                        *)
(***************************************************************************)
Ch(s, i) == IF i >= 1 /\ i <= Len(s) THEN SubSeq(s, i, i) ELSE ""

Whitespace == {" ", "\t", "\n", "\r"}

Digits == {"0", "1", "2", "3", "4", "5", "6", "7", "8", "9"}

\* the escape sequences of a JSON string literal that a TLA+ string can
\* express (\b and \uXXXX are not among them; no response text uses them)
Escapes ==
    ("\"" :> "\"") @@ ("\\" :> "\\") @@ ("/" :> "/") @@
    ("n" :> "\n") @@ ("t" :> "\t") @@ ("r" :> "\r") @@ ("f" :> "\f")

ParseFail == [ok |-> FALSE, val |-> Null, pos |-> 0]

ParseOk(val, pos) == [ok |-> TRUE, val |-> val, pos |-> pos]

RECURSIVE SkipWs(_, _)
SkipWs(s, i) == IF Ch(s, i) \in Whitespace THEN SkipWs(s, i + 1) ELSE i

RECURSIVE SkipDigits(_, _)
SkipDigits(s, i) == IF Ch(s, i) \in Digits THEN SkipDigits(s, i + 1) ELSE i

\* s holds the word w at position i
Lit(s, i, w) == i + Len(w) - 1 <= Len(s) /\ SubSeq(s, i, i + Len(w) - 1) = w

\* i is a position inside a string literal, acc the characters decoded so far
RECURSIVE ScanString(_, _, _)
ScanString(s, i, acc) ==
    LET c == Ch(s, i) IN
    IF c = "" THEN ParseFail
    ELSE IF c = "\"" THEN ParseOk(Str(acc), i + 1)
    ELSE IF c = "\\"
         THEN IF Ch(s, i + 1) \in DOMAIN Escapes
              THEN ScanString(s, i + 2, acc \o Escapes[Ch(s, i + 1)])
              ELSE ParseFail
    ELSE IF c \in {"\t", "\n", "\r", "\f"} THEN ParseFail
    ELSE ScanString(s, i + 1, acc \o c)

\* -? (0 | [1-9][0-9]*) (. [0-9]+)? ([eE] [+-]? [0-9]+)?
ParseNumber(s, i) ==
    LET a == IF Ch(s, i) = "-" THEN i + 1 ELSE i
        b == IF Ch(s, a) = "0" THEN a + 1 ELSE SkipDigits(s, a)
        hasFrac == Ch(s, b) = "."
        f == IF hasFrac THEN SkipDigits(s, b + 1) ELSE b
        hasExp == Ch(s, f) \in {"e", "E"}
        x == IF hasExp
             THEN IF Ch(s, f + 1) \in {"+", "-"} THEN f + 2 ELSE f + 1
             ELSE f
        e == IF hasExp THEN SkipDigits(s, x) ELSE f
    IN  IF b > a /\ (hasFrac => f > b + 1) /\ (hasExp => e > x)
        THEN ParseOk(Num(SubSeq(s, i, e - 1)), e)
        ELSE ParseFail

RECURSIVE ParseValue(_, _), ParseElements(_, _, _), ParseMembers(_, _, _)
ParseValue(s, i0) ==
    LET i == SkipWs(s, i0)
        c == Ch(s, i)
    IN  CASE c = "{" ->
                IF Ch(s, SkipWs(s, i + 1)) = "}"
                THEN ParseOk(Obj(<<>>), SkipWs(s, i + 1) + 1)
                ELSE ParseMembers(s, i + 1, <<>>)
          [] c = "[" ->
                IF Ch(s, SkipWs(s, i + 1)) = "]"
                THEN ParseOk(Arr(<<>>), SkipWs(s, i + 1) + 1)
                ELSE ParseElements(s, i + 1, <<>>)
          [] c = "\"" -> ScanString(s, i + 1, "")
          [] c = "-" \/ c \in Digits -> ParseNumber(s, i)
          [] Lit(s, i, "true") -> ParseOk(Bool("true"), i + 4)
          [] Lit(s, i, "false") -> ParseOk(Bool("false"), i + 5)
          [] Lit(s, i, "null") -> ParseOk(Null, i + 4)
          [] OTHER -> ParseFail

\* i is where an element of an array starts, acc the elements before it
ParseElements(s, i, acc) ==
    LET r == ParseValue(s, i) IN
    IF ~r.ok THEN ParseFail
    ELSE LET j == SkipWs(s, r.pos) IN
         IF Ch(s, j) = "," THEN ParseElements(s, j + 1, Append(acc, r.val))
         ELSE IF Ch(s, j) = "]" THEN ParseOk(Arr(Append(acc, r.val)), j + 1)
         ELSE ParseFail

\* i is where a member of an object starts, acc the members before it; a
\* repeated key keeps its last value
ParseMembers(s, i, acc) ==
    LET k0 == SkipWs(s, i) IN
    IF Ch(s, k0) # "\"" THEN ParseFail
    ELSE LET k == ScanString(s, k0 + 1, "") IN
         IF ~k.ok THEN ParseFail
         ELSE LET c == SkipWs(s, k.pos) IN
              IF Ch(s, c) # ":" THEN ParseFail
              ELSE LET r == ParseValue(s, c + 1) IN
                   IF ~r.ok THEN ParseFail
                   ELSE LET j == SkipWs(s, r.pos)
                            acc2 == (k.val.v :> r.val) @@ acc
                        IN  IF Ch(s, j) = ","
                            THEN ParseMembers(s, j + 1, acc2)
                            ELSE IF Ch(s, j) = "}"
                                 THEN ParseOk(Obj(acc2), j + 1)
                                 ELSE ParseFail

\* JSON.parse that stops at the end of the first value and ignores the rest
JSONParse_IgnoresRest(text) ==
    LET r == ParseValue(text, 1) IN
    IF r.ok THEN [ok |-> TRUE, val |-> r.val] ELSE [ok |-> FALSE, val |-> Null]

\* JSON.parse(text): [ok |-> TRUE, val |-> value], or ok = FALSE where
\* JSON.parse throws a SyntaxError
JSONParse(text) ==
    LET r == ParseValue(text, 1) IN
    IF r.ok /\ SkipWs(text, r.pos) = Len(text) + 1
    THEN [ok |-> TRUE, val |-> r.val]
    ELSE [ok |-> FALSE, val |-> Null]

(***************************************************************************)
(* Object spread and Error objects                                         *)
(***************************************************************************)
\* the own enumerable properties {...value} copies: those of an object, the
\* index properties of an array or of a string, none of any other value
OwnProperties(value) ==
    CASE value.t = "obj" -> value.v
      [] value.t = "arr" ->
            [k \in {ToString(i - 1) : i \in 1..Len(value.v)} |->
                value.v[CHOOSE i \in 1..Len(value.v) : ToString(i - 1) = k]]
      [] value.t = "str" ->
            [k \in {ToString(i - 1) : i \in 1..Len(value.v)} |->
                Str(Ch(value.v, CHOOSE i \in 1..Len(value.v) : ToString(i - 1) = k))]
      [] OTHER -> <<>>

\* { query: config.query, ...parsed }: the properties of parsed are written
\* after query, so a query property of parsed replaces the config's
SpreadResult(config, parsed) ==
    OwnProperties(parsed) @@ ("query" :> Str(config.query))

\* new Error(message)
NewError(message) == [message |-> <<message>>, error |-> <<>>]

\* the message of the TypeError of reading .message of undefined
TypeErrorMessage == "Cannot read properties of undefined (reading 'message')"

\* a || b on strings that may be undefined: a when a is a non-empty string
OrElse(a, b) == IF a # <<>> /\ a[1] # "" THEN a ELSE b

\* error.error?.message || error.message || 'Unknown error occurred'
ErrorMessage(error) ==
    OrElse(IF error.error # <<>> THEN error.error[1].message ELSE <<>>,
           OrElse(error.message, <<"Unknown error occurred">>))[1]

\* `${error.message}`
TemplateText(message) == IF message = <<>> THEN "undefined" ELSE message[1]

\* a completion of a function body: a returned value or a thrown error
Returned(value) == [threw |-> FALSE, value |-> value, error |-> NewError("")]

Thrown(error) == [threw |-> TRUE, value |-> <<>>, error |-> error]

(***************************************************************************)
(* The adapter: request construction                                       *)
(***************************************************************************)
\* hundredths: temperature 0.7, topP 0.95
DefaultTemperature == 70

TopP == 95

TopK == 40

HasTemperature(config) == "temperature" \in DOMAIN config

OpenAISystemContent ==
    "You are a research assistant. Analyze the query deeply and provide a comprehensive answer with follow-up questions for deeper exploration."

\* the argument of openai.chat.completions.create
OpenAIRequest(config) ==
    [api |-> "openai",
     apiKey |-> config.apiKey,
     model |-> IF config.model # "" THEN config.model ELSE "gpt-4-0125-preview",
     messages |-> <<[role |-> "system", content |-> OpenAISystemContent],
                    [role |-> "user", content |-> config.query]>>,
     functions |-> <<[name |-> "provide_research_response",
                      required |-> <<"answer", "followUpQuestions", "confidence">>]>>,
     function_call |-> "provide_research_response"]

\* temperature: config.temperature || 0.7
GenerationConfig(config) ==
    [temperature |-> IF HasTemperature(config) /\ config.temperature # 0
                     THEN config.temperature
                     ELSE DefaultTemperature,
     topP |-> TopP,
     topK |-> TopK]

SafetySettings ==
    [category \in {"HARM_CATEGORY_HARASSMENT", "HARM_CATEGORY_HATE_SPEECH",
                   "HARM_CATEGORY_SEXUALLY_EXPLICIT",
                   "HARM_CATEGORY_DANGEROUS_CONTENT"} |-> "BLOCK_MEDIUM_AND_ABOVE"]

SystemPrompt ==
    "You are a research assistant. Your task is to:\n1. Analyze the query deeply\n2. Provide a comprehensive answer\n3. Generate relevant follow-up questions\n4. Format your response as JSON with this structure:\n{\n  \"answer\": \"your detailed answer\",\n  \"followUpQuestions\": [\"question 1\", \"question 2\", \"question 3\"],\n  \"confidence\": 0.95\n}"

\* the model of getGenerativeModel and the argument of generateContent
GeminiRequest(config) ==
    [api |-> "gemini",
     apiKey |-> config.apiKey,
     model |-> IF config.model # "" THEN config.model ELSE "gemini-pro",
     contents |-> <<[role |-> "user",
                     text |-> SystemPrompt \o "\n\nQuery: " \o config.query]>>,
     generationConfig |-> GenerationConfig(config),
     safetySettings |-> SafetySettings]

\* the dispatch that tests for "gemini" instead of "openai"
Dispatch_TestsGemini(config) ==
    IF config.provider = "gemini" THEN "gemini" ELSE "openai"

\* the provider path performResearch takes
Dispatch(config) == IF config.provider = "openai" THEN "openai" ELSE "gemini"

\* one API call per level of maxDepth
IssuedRequests_PerDepth(config) ==
    [i \in 1..config.maxDepth |->
        IF config.provider = "openai" THEN OpenAIRequest(config)
        ELSE GeminiRequest(config)]

\* the API calls one invocation issues once its clients are constructed
IssuedRequests(config) ==
    IF Dispatch(config) = "openai"
    THEN <<OpenAIRequest(config)>>
    ELSE <<GeminiRequest(config)>>

(***************************************************************************)
(* The adapter: what follows the provider's answer                         *)
(***************************************************************************)
\* performOpenAIResearch without the check of functionCall: reading
\* .arguments of undefined throws a TypeError
OpenAIContinuation_NoCheck(config, outcome) ==
    IF outcome.kind = "reject" THEN Thrown(outcome.error)
    ELSE IF outcome.choices = <<>> THEN Thrown(NewError(TypeErrorMessage))
    ELSE IF outcome.choices[1].function_call = <<>>
         THEN Thrown(NewError(
                "Cannot read properties of undefined (reading 'arguments')"))
    ELSE LET parsed == JSONParse(outcome.choices[1].function_call[1].arguments) IN
         IF parsed.ok
         THEN Returned(SpreadResult(config, parsed.val))
         ELSE Thrown(NewError("Failed to parse model response"))

\* performOpenAIResearch from the await on: outcome is the rejection or the
\* response of openai.chat.completions.create
OpenAIContinuation(config, outcome) ==
    IF outcome.kind = "reject" THEN Thrown(outcome.error)
    ELSE IF outcome.choices = <<>> THEN Thrown(NewError(TypeErrorMessage))
    ELSE IF outcome.choices[1].function_call = <<>>
         THEN Thrown(NewError("No response received from the model"))
    ELSE LET parsed == JSONParse(outcome.choices[1].function_call[1].arguments) IN
         IF parsed.ok
         THEN Returned(SpreadResult(config, parsed.val))
         ELSE Thrown(NewError("Failed to parse model response"))

\* the inner catch rethrowing the error with its own message
GeminiCatch_Rethrows(error) == NewError(TemplateText(error.message))

\* catch (error) { throw new Error(`Gemini API Error: ${error.message}`) }
GeminiCatch(error) ==
    NewError("Gemini API Error: " \o TemplateText(error.message))

\* performGeminiResearch from the await on: outcome is the rejection of
\* generateContent, or its response, whose text() throws or returns the text
GeminiContinuation(config, outcome) ==
    IF outcome.kind = "reject" THEN Thrown(GeminiCatch(outcome.error))
    ELSE IF outcome.blocked # <<>> THEN Thrown(GeminiCatch(outcome.blocked[1]))
    ELSE LET parsed == JSONParse(outcome.text) IN
         IF parsed.ok
         THEN Returned(SpreadResult(config, parsed.val))
         ELSE Thrown(GeminiCatch(NewError(
                "Failed to parse Gemini response. The model did not return valid JSON.")))

\* the outer catch rethrowing the extracted message with no prefix
PerformResearchCatch_NoPrefix(error) == NewError(ErrorMessage(error))

\* catch (error) { throw new Error(`API Error: ${errorMessage}`) }
PerformResearchCatch(error) == NewError("API Error: " \o ErrorMessage(error))

\* how the promise of performResearch settles on a completion of its path
Settle(completion) ==
    IF completion.threw
    THEN [state |-> "rejected", result |-> <<>>,
          message |-> PerformResearchCatch(completion.error).message[1]]
    ELSE [state |-> "resolved", result |-> completion.value, message |-> ""]

Pending == [state |-> "pending", result |-> <<>>, message |-> ""]

(***************************************************************************)
(* Inputs: the configs performResearch is invoked with, and what the       *)
(* provider SDKs answer                                                    *)
(***************************************************************************)
ProviderValues == {"openai", "gemini", "OpenAI", ""}

ModelValues == {"", "gpt-4o"}

QueryValues == {"What is TLA+?", "spoofed"}

TemperatureValues == {0, 10, 70, 100}

DepthValues == {1, 5}

BaseConfigs ==
    [apiKey : {"sk-test"}, provider : ProviderValues, model : ModelValues,
     query : QueryValues, maxDepth : DepthValues, maxBranches : DepthValues]

\* every config, with the optional temperature absent or present
Configs ==
    BaseConfigs \cup
    {c @@ [temperature |-> t] : c \in BaseConfigs, t \in TemperatureValues}

\* errors an SDK throws or rejects with: a plain Error, an APIError carrying
\* the provider's error object, an Error with an empty message, and an
\* error object with no message of its own
ThrownErrors ==
    {[message |-> <<"Connection error.">>, error |-> <<>>],
     [message |-> <<"401 Incorrect API key provided">>,
      error |-> <<[message |-> <<"Incorrect API key provided">>]>>],
     [message |-> <<"">>, error |-> <<>>],
     [message |-> <<>>, error |-> <<[message |-> <<>>]>>]}

WellFormedText ==
    "{\"answer\":\"x\",\"followUpQuestions\":[\"y\"],\"confidence\":0.9}"

SpoofedQueryText ==
    "{\"query\":\"spoofed\",\"answer\":\"x\",\"followUpQuestions\":[],\"confidence\":1}"

\* a fenced code block (a TLA+ string cannot hold a backquote; the tilde
\* fence is the other fence of markdown)
FencedText == "~~~json\n" \o WellFormedText \o "\n~~~"

\* texts JSON.parse accepts
ValidTexts ==
    {WellFormedText, SpoofedQueryText, " \n" \o WellFormedText \o "\n",
     "{\"query\":{\"a\":1},\"answer\":null}", "{}", "null", "[\"y\"]", "\"ab\""}

\* texts JSON.parse throws on
InvalidTexts ==
    {FencedText, "Here is the answer: " \o WellFormedText,
     WellFormedText \o " Hope this helps", "{\"answer\":\"x\",", ""}

Texts == ValidTexts \cup InvalidTexts

\* what openai.chat.completions.create settles with
OpenAIOutcomes(texts, errors) ==
    {[kind |-> "reject", error |-> e] : e \in errors}
    \cup {[kind |-> "response", choices |-> <<>>],
          [kind |-> "response", choices |-> <<[function_call |-> <<>>]>>]}
    \cup {[kind |-> "response",
           choices |-> <<[function_call |->
                <<[name |-> "provide_research_response", arguments |-> a]>>]>>]
          : a \in texts}

\* what generateContent settles with
GeminiOutcomes(texts, errors) ==
    {[kind |-> "reject", error |-> e] : e \in errors}
    \cup {[kind |-> "response", blocked |-> <<e>>, text |-> ""] : e \in errors}
    \cup {[kind |-> "response", blocked |-> <<>>, text |-> a] : a \in texts}

\* what constructing the SDK client does: nothing, or throw
ConstructionOutcomes(errors) == {<<>>} \cup {<<e>> : e \in errors}

(***************************************************************************)
(* State                                                                   *)
(***************************************************************************)
VARIABLES
    calls,            \* the invocations of performResearch not yet consumed
    config,           \* App: useState<ResearchConfig>
    loading,          \* App: useState(false)
    error,            \* App: useState<string | null>(null), <<>> is null
    results,          \* App: useState<ResearchResult[]>([])
    expandedResults,  \* App: useState<number[]>([])
    submits,          \* how many times handleSubmit has run
    delivered         \* the results performResearch has resolved with, in order

vars == <<calls, config, loading, error, results, expandedResults, submits,
          delivered>>

shellVars == <<config, loading, error, results, expandedResults, submits>>

\* the most submissions of one behaviour
MaxSubmits == 2

InitialConfig ==
    [apiKey |-> "", provider |-> "openai", model |-> "gpt-4-0125-preview",
     temperature |-> 70, query |-> "", maxDepth |-> 3, maxBranches |-> 3]

ShellInit ==
    /\ config = InitialConfig
    /\ loading = FALSE
    /\ error = <<>>
    /\ results = <<>>
    /\ expandedResults = <<>>
    /\ submits = 0

(***************************************************************************)
(* performResearch                                                         *)
(***************************************************************************)
\* a call of performResearch that has not started to run; closure is what
\* the calling handleSubmit captured
Invoked(cfg, closure) ==
    [config |-> cfg, pc |-> "invoked", paths |-> <<>>, requests |-> <<>>,
     outcome |-> <<>>, settlement |-> Pending, closure |-> closure]

\* performResearch up to its first await: the dispatch, the construction of
\* the path's client (thrown is what it throws, if it does) and the API call
Started(call, thrown) ==
    IF thrown = <<>>
    THEN [call EXCEPT !.pc = "awaiting",
                      !.paths = Append(@, Dispatch(call.config)),
                      !.requests = @ \o IssuedRequests(call.config)]
    ELSE [call EXCEPT !.pc = "settled",
                      !.paths = Append(@, Dispatch(call.config)),
                      !.settlement = Settle(Thrown(thrown[1]))]

\* performResearch from the provider's answer to its own settlement
Settled(call, outcome) ==
    [call EXCEPT !.pc = "settled",
                 !.outcome = <<outcome>>,
                 !.settlement =
                    Settle(IF call.paths[Len(call.paths)] = "openai"
                           THEN OpenAIContinuation(call.config, outcome)
                           ELSE GeminiContinuation(call.config, outcome))]

Log(call) ==
    IF call.settlement.state = "resolved"
    THEN Append(delivered, call.settlement.result)
    ELSE delivered

\* an invoked call runs to its await, or to the throw of its construction
PerformResearch(c, thrown) ==
    /\ calls[c].pc = "invoked"
    /\ calls' = [calls EXCEPT ![c] = Started(calls[c], thrown)]
    /\ UNCHANGED <<shellVars, delivered>>

\* openai.chat.completions.create settles and performOpenAIResearch resumes
OpenAISettles(c, outcome) ==
    /\ calls[c].pc = "awaiting"
    /\ calls[c].paths[Len(calls[c].paths)] = "openai"
    /\ calls' = [calls EXCEPT ![c] = Settled(calls[c], outcome)]
    /\ delivered' = Log(Settled(calls[c], outcome))
    /\ UNCHANGED shellVars

\* generateContent settles and performGeminiResearch resumes
GeminiSettles(c, outcome) ==
    /\ calls[c].pc = "awaiting"
    /\ calls[c].paths[Len(calls[c].paths)] = "gemini"
    /\ calls' = [calls EXCEPT ![c] = Settled(calls[c], outcome)]
    /\ delivered' = Log(Settled(calls[c], outcome))
    /\ UNCHANGED shellVars

\* performResearch called on its own, with any config
Init ==
    /\ ShellInit
    /\ delivered = <<>>
    /\ \E cfg \in Configs : calls = <<Invoked(cfg, <<>>)>>

PerformResearchStep ==
    \E c \in DOMAIN calls, thrown \in ConstructionOutcomes(ThrownErrors) :
        PerformResearch(c, thrown)

OpenAIStep ==
    \E c \in DOMAIN calls, outcome \in OpenAIOutcomes(Texts, ThrownErrors) :
        OpenAISettles(c, outcome)

GeminiStep ==
    \E c \in DOMAIN calls, outcome \in GeminiOutcomes(Texts, ThrownErrors) :
        GeminiSettles(c, outcome)

Next == PerformResearchStep \/ OpenAIStep \/ GeminiStep

Spec == Init /\ [][Next]_vars

(***************************************************************************)
(* The shell: App                                                          *)
(***************************************************************************)
\* what the user types or selects
ApiKeyInputs == {"", "sk-test"}

ModelInputs == {"gemini-pro"}

TemperatureInputs == {0}

QueryInputs == {"", "What is TLA+?"}

NumberInputs == {1}

\* what the providers answer in the shell's runs
ShellTexts == {WellFormedText, FencedText}

ShellErrors == {[message |-> <<"Connection error.">>, error |-> <<>>]}

\* a settled call whose handleSubmit has not resumed yet: it resumes (a
\* microtask) before any event of the user is handled
Resuming == \E c \in DOMAIN calls : calls[c].pc = "settled"

\* the button left enabled while a call is in flight
SubmitDisabled_IgnoresLoading == config.apiKey = "" \/ config.query = ""

\* disabled={loading || !config.apiKey || !config.query}
SubmitDisabled == loading \/ config.apiKey = "" \/ config.query = ""

\* setConfig(next), from an event handler
SetConfig(next) ==
    /\ ~Resuming
    /\ config' = next
    /\ UNCHANGED <<calls, loading, error, results, expandedResults, submits,
                   delivered>>

SetProvider ==
    \E provider \in {"openai", "gemini"} :
        SetConfig([config EXCEPT
            !.provider = provider,
            !.model = IF provider = "openai" THEN "gpt-4-0125-preview"
                      ELSE "gemini-pro"])

SetApiKey == \E apiKey \in ApiKeyInputs : SetConfig([config EXCEPT !.apiKey = apiKey])

SetModel == \E model \in ModelInputs : SetConfig([config EXCEPT !.model = model])

SetTemperature ==
    \E temperature \in TemperatureInputs :
        SetConfig([config EXCEPT !.temperature = temperature])

SetQuery == \E query \in QueryInputs : SetConfig([config EXCEPT !.query = query])

SetMaxDepth ==
    \E maxDepth \in NumberInputs : SetConfig([config EXCEPT !.maxDepth = maxDepth])

SetMaxBranches ==
    \E maxBranches \in NumberInputs :
        SetConfig([config EXCEPT !.maxBranches = maxBranches])

\* a follow-up question of an expanded result is clicked
ClickFollowUp ==
    \E index \in 1..Len(results) :
        /\ \E e \in 1..Len(expandedResults) : expandedResults[e] = index - 1
        /\ "followUpQuestions" \in DOMAIN results[index]
        /\ results[index]["followUpQuestions"].t = "arr"
        /\ \E q \in 1..Len(results[index]["followUpQuestions"].v) :
            LET question == results[index]["followUpQuestions"].v[q] IN
            /\ question.t = "str"
            /\ SetConfig([config EXCEPT !.query = question.v])

\* prev.includes(index) ? prev.filter(i => i !== index) : [...prev, index]
Toggled(prev, index) ==
    LET Other(i) == i # index IN
    IF \E e \in 1..Len(prev) : prev[e] = index
    THEN SelectSeq(prev, Other)
    ELSE Append(prev, index)

\* the header of a rendered result is clicked
ToggleExpanded ==
    \E index \in 0..(Len(results) - 1) :
        /\ ~Resuming
        /\ expandedResults' = Toggled(expandedResults, index)
        /\ UNCHANGED <<calls, config, loading, error, results, submits, delivered>>

\* handleSubmit up to its await: the form is submitted, which the disabled
\* button prevents, and performResearch(config) runs to its own await
HandleSubmit ==
    \E thrown \in ConstructionOutcomes(ShellErrors) :
        /\ ~Resuming
        /\ ~SubmitDisabled
        /\ submits < MaxSubmits
        /\ submits' = submits + 1
        /\ loading' = TRUE
        /\ error' = <<>>
        /\ calls' = Append(calls, Started(Invoked(config, results), thrown))
        /\ UNCHANGED <<config, results, expandedResults, delivered>>

\* setResults([result]): the earlier results are dropped
NewResults_Overwrites(result, captured) == <<result>>

\* setResults([result, ...results]), with the results handleSubmit captured
NewResults(result, captured) == <<result>> \o captured

\* error.message || 'An unexpected error occurred. Please try again.'
ShownError(message) ==
    IF message # "" THEN message
    ELSE "An unexpected error occurred. Please try again."

Without(q, c) == [i \in 1..(Len(q) - 1) |-> IF i < c THEN q[i] ELSE q[i + 1]]

\* handleSubmit from its await on: try, catch and finally
HandleSubmitResumes ==
    \E c \in DOMAIN calls :
        /\ calls[c].pc = "settled"
        /\ IF calls[c].settlement.state = "resolved"
           THEN /\ results' = NewResults(calls[c].settlement.result, calls[c].closure)
                /\ expandedResults' = <<0>>
                /\ error' = error
           ELSE /\ error' = <<ShownError(calls[c].settlement.message)>>
                /\ UNCHANGED <<results, expandedResults>>
        /\ loading' = FALSE
        /\ calls' = Without(calls, c)
        /\ UNCHANGED <<config, submits, delivered>>

ShellOpenAIStep ==
    \E c \in DOMAIN calls, outcome \in OpenAIOutcomes(ShellTexts, ShellErrors) :
        OpenAISettles(c, outcome)

ShellGeminiStep ==
    \E c \in DOMAIN calls, outcome \in GeminiOutcomes(ShellTexts, ShellErrors) :
        GeminiSettles(c, outcome)

InitShell ==
    /\ ShellInit
    /\ delivered = <<>>
    /\ calls = <<>>

NextShell ==
    \/ SetProvider
    \/ SetApiKey
    \/ SetModel
    \/ SetTemperature
    \/ SetQuery
    \/ SetMaxDepth
    \/ SetMaxBranches
    \/ ClickFollowUp
    \/ ToggleExpanded
    \/ HandleSubmit
    \/ ShellOpenAIStep
    \/ ShellGeminiStep
    \/ HandleSubmitResumes

ShellSpec == InitShell /\ [][NextShell]_vars

(***************************************************************************)
(* Properties                                                              *)
(***************************************************************************)
StartsWith(s, prefix) ==
    Len(s) >= Len(prefix) /\ SubSeq(s, 1, Len(prefix)) = prefix

Reverse(q) == [i \in 1..Len(q) |-> q[Len(q) + 1 - i]]

Front(q) == SubSeq(q, 1, Len(q) - 1)

PathOf(call) == call.paths[Len(call.paths)]

IsSettled(call) == call.pc = "settled"

Resolved(call) == call.settlement.state = "resolved"

Rejected(call) == call.settlement.state = "rejected"

\* the provider answered the call with a response (not a rejection)
Answered(call) == call.outcome # <<>> /\ call.outcome[1].kind = "response"

\* the response's first choice exists and has no function_call
NoFunctionCall(call) ==
    /\ Answered(call)
    /\ call.outcome[1].choices # <<>>
    /\ call.outcome[1].choices[1].function_call = <<>>

\* the arguments of the response's function call
HasArguments(call, texts) ==
    /\ Answered(call)
    /\ call.outcome[1].choices # <<>>
    /\ call.outcome[1].choices[1].function_call # <<>>
    /\ call.outcome[1].choices[1].function_call[1].arguments \in texts

\* the text of the Gemini response
HasText(call, texts) ==
    /\ Answered(call)
    /\ call.outcome[1].blocked = <<>>
    /\ call.outcome[1].text \in texts

\* what failed in a settled call, "none" when nothing did
FailureKind(call) ==
    IF call.outcome = <<>> THEN "construction"
    ELSE IF call.outcome[1].kind = "reject" THEN "sdk"
    ELSE IF PathOf(call) = "openai"
         THEN IF call.outcome[1].choices = <<>> THEN "other"
              ELSE IF NoFunctionCall(call) THEN "missing"
              ELSE IF HasArguments(call, InvalidTexts) THEN "parse"
              ELSE "none"
         ELSE IF call.outcome[1].blocked # <<>> THEN "other"
              ELSE IF HasText(call, InvalidTexts) THEN "parse"
              ELSE "none"

\* a settled call of performResearch stays as it settled
SettlesOnce ==
    \A c \in DOMAIN calls :
        IsSettled(calls[c]) => c \in DOMAIN calls' /\ calls'[c] = calls[c]

\* C1: whenever performResearch resolves, on either path, the result's query
\* equals config.query, whatever the parsed model JSON holds
C1_EchoInvariant ==
    \A c \in DOMAIN calls :
        IsSettled(calls[c]) /\ Resolved(calls[c]) =>
            calls[c].settlement.result["query"] = Str(calls[c].config.query)

\* C2: on the Gemini path the generation parameters carry the config's
\* temperature unchanged for every value in [0,1], 0 included, and 0.7 only
\* when the config has no temperature
C2_TemperatureRoundTrip ==
    \A c \in DOMAIN calls :
        \A r \in 1..Len(calls[c].requests) :
            calls[c].requests[r].api = "gemini" =>
                calls[c].requests[r].generationConfig.temperature =
                    IF HasTemperature(calls[c].config)
                    THEN calls[c].config.temperature
                    ELSE DefaultTemperature

\* C3: on the OpenAI path a response whose first choice has no function_call
\* makes performResearch reject with "API Error: No response received from
\* the model", and no result is produced
C3_NoFunctionCallRejects ==
    \A c \in DOMAIN calls :
        IsSettled(calls[c]) /\ PathOf(calls[c]) = "openai" /\ NoFunctionCall(calls[c]) =>
            /\ Rejected(calls[c])
            /\ calls[c].settlement.message =
                    "API Error: No response received from the model"
            /\ calls[c].settlement.result = <<>>
            /\ delivered = <<>>

C3_Witness ==
    \E c \in DOMAIN calls :
        /\ IsSettled(calls[c]) /\ PathOf(calls[c]) = "openai"
        /\ NoFunctionCall(calls[c])
        /\ Rejected(calls[c])

\* C4: on the OpenAI path arguments that are not valid JSON make
\* performResearch reject with "API Error: Failed to parse model response",
\* after the one API call and with no result
C4_BadArgumentsReject ==
    \A c \in DOMAIN calls :
        IsSettled(calls[c]) /\ PathOf(calls[c]) = "openai"
        /\ HasArguments(calls[c], InvalidTexts) =>
            /\ Rejected(calls[c])
            /\ calls[c].settlement.message =
                    "API Error: Failed to parse model response"
            /\ calls[c].settlement.result = <<>>
            /\ Len(calls[c].requests) = 1
            /\ delivered = <<>>

C4_Witness ==
    \E c \in DOMAIN calls :
        /\ IsSettled(calls[c]) /\ PathOf(calls[c]) = "openai"
        /\ HasArguments(calls[c], {WellFormedText \o " Hope this helps"})
        /\ Rejected(calls[c])

\* C5: on the Gemini path a text that is not valid JSON as a whole (JSON in
\* a fence, JSON in prose) makes performResearch reject with the parse
\* message wrapped by both catches
C5_BadTextRejects ==
    \A c \in DOMAIN calls :
        IsSettled(calls[c]) /\ PathOf(calls[c]) = "gemini"
        /\ HasText(calls[c], InvalidTexts) =>
            /\ Rejected(calls[c])
            /\ calls[c].settlement.message =
                    "API Error: Gemini API Error: Failed to parse Gemini response. The model did not return valid JSON."

C5_Witness ==
    \E c \in DOMAIN calls :
        /\ IsSettled(calls[c]) /\ PathOf(calls[c]) = "gemini"
        /\ HasText(calls[c], {FencedText})
        /\ Rejected(calls[c])

\* C6 as claimed: every failure on either path rejects with a message that
\* starts with "API Error: ", on the Gemini path with "API Error: Gemini API
\* Error: ", and nothing else rejects
C6_UniformCollapse ==
    \A c \in DOMAIN calls :
        IsSettled(calls[c]) =>
            IF FailureKind(calls[c]) = "none"
            THEN Resolved(calls[c])
            ELSE /\ Rejected(calls[c])
                 /\ StartsWith(calls[c].settlement.message, "API Error: ")
                 /\ PathOf(calls[c]) = "gemini" =>
                        StartsWith(calls[c].settlement.message,
                                   "API Error: Gemini API Error: ")

C6_Collapse ==
    \A c \in DOMAIN calls :
        IsSettled(calls[c]) =>
            IF FailureKind(calls[c]) = "none"
            THEN Resolved(calls[c])
            ELSE /\ Rejected(calls[c])
                 /\ calls[c].settlement.result = <<>>
                 /\ StartsWith(calls[c].settlement.message, "API Error: ")
                 /\ PathOf(calls[c]) = "gemini" =>
                        (StartsWith(calls[c].settlement.message,
                                    "API Error: Gemini API Error: ")
                            <=> FailureKind(calls[c]) # "construction")

\* C6, amended: every failure on either path rejects, once, with a message
\* that starts with "API Error: " and nothing else rejects; on the Gemini
\* path the message starts with "API Error: Gemini API Error: " exactly when
\* the failure is not one of constructing the client
C6_CollapseAmended == []C6_Collapse /\ [][SettlesOnce]_vars

C6_Witness ==
    \E c \in DOMAIN calls :
        /\ IsSettled(calls[c]) /\ PathOf(calls[c]) = "gemini"
        /\ FailureKind(calls[c]) = "construction"
        /\ Rejected(calls[c])
        /\ calls[c].settlement.message = "API Error: Connection error."

\* C7: the OpenAI path is taken if and only if config.provider is exactly
\* "openai", the Gemini path for every other value, and one path per call
C7_DispatchInv ==
    \A c \in DOMAIN calls :
        LET path == IF calls[c].config.provider = "openai" THEN "openai"
                    ELSE "gemini"
        IN  /\ calls[c].paths = IF calls[c].pc = "invoked" THEN <<>> ELSE <<path>>
            /\ \A r \in 1..Len(calls[c].requests) : calls[c].requests[r].api = path

C7_Witness ==
    \E c \in DOMAIN calls :
        /\ calls[c].config.provider = "OpenAI"
        /\ calls[c].paths = <<"gemini">>
        /\ Len(calls[c].requests) = 1
        /\ calls[c].requests[1].api = "gemini"

C8_OneCall ==
    \A c \in DOMAIN calls :
        /\ Len(calls[c].requests) <= 1
        /\ calls[c].pc = "invoked" => calls[c].requests = <<>>
        /\ calls[c].pc = "awaiting" => Len(calls[c].requests) = 1
        /\ IsSettled(calls[c]) =>
                (Len(calls[c].requests) = 1 <=> FailureKind(calls[c]) # "construction")

\* C8: one invocation issues at most one provider API call, exactly one
\* unless the construction of the request throws, whatever maxDepth and
\* maxBranches are, and issues none after it has settled
C8_SingleRoundTrip == []C8_OneCall /\ [][SettlesOnce]_vars

C8_Witness ==
    \E c \in DOMAIN calls :
        /\ IsSettled(calls[c]) /\ Rejected(calls[c])
        /\ FailureKind(calls[c]) = "parse"
        /\ calls[c].config.maxDepth = 5 /\ calls[c].config.maxBranches = 5
        /\ Len(calls[c].requests) = 1

C9_Exclusion ==
    /\ Len(calls) <= 1
    /\ loading <=> Len(calls) = 1

C9_SubmitGuard ==
    Len(calls') > Len(calls) =>
        ~loading /\ config.apiKey # "" /\ config.query # "" /\ loading'

\* C9: at most one performResearch call started by the shell is outstanding;
\* loading is true exactly while a submission has not finished, a submission
\* starts only with loading false and apiKey and query non-empty, and
\* loading is false again after every settlement
C9_InFlightExclusion == []C9_Exclusion /\ [][C9_SubmitGuard]_vars

C9_Witness ==
    /\ submits = 2
    /\ Len(calls) = 1
    /\ calls[1].pc = "awaiting"
    /\ loading
    /\ calls[1].config # config

C10_Accumulated ==
    results = Reverse(IF \E c \in DOMAIN calls : Resolved(calls[c])
                      THEN Front(delivered)
                      ELSE delivered)

C10_Resumes ==
    \A c \in DOMAIN calls :
        IsSettled(calls[c]) /\ Len(calls') < Len(calls) =>
            IF Resolved(calls[c])
            THEN /\ results' = <<calls[c].settlement.result>> \o results
                 /\ expandedResults' = <<0>>
            ELSE /\ results' = results
                 /\ error' = <<calls[c].settlement.message>>

\* C10: the results list holds one entry per successful performResearch
\* call, newest first, the earlier ones kept in order; right after a
\* successful submission only index 0 is expanded; a failed submission
\* leaves the list as it was and sets the error message
C10_ResultAccumulation == []C10_Accumulated /\ [][C10_Resumes]_vars

C10_Witness ==
    /\ Len(results) = 2
    /\ results = Reverse(delivered)
    /\ results[1]["query"] # results[2]["query"]
    /\ expandedResults = <<0>>
    /\ calls = <<>>

=============================================================================
